---------------------------- MODULE Spec2Model ----------------------------
(***************************************************************************)
(* Model of the virtual financial analyst: the start-up sequence and the   *)
(* conversational loop of main.py, the agent executor configured in        *)
(* src/agent.py (ReAct agent, window memory k=5, max_iterations=5, string  *)
(* handle_parsing_errors, verbose) and the three tools of src/tools.py.    *)
(*                                                                         *)
(* Texts are sequences of one-character strings, so that lower-casing and  *)
(* trimming are computed and not assumed.                                  *)
(***************************************************************************)
EXTENDS Integers, Sequences, FiniteSets

VARIABLES
    pc,                     \* position of main_conversational_loop
    gemini_file_object,     \* TRUE once client.files.upload returned a File
    deletion,               \* outcome of client.files.delete at exit
    pdf_prompts,            \* file names rejected while the PDF prompt is open
    chat_memory,            \* every exchange saved by the memory, oldest first
    user_query,             \* the input the executor is working on
    chat_history,           \* the window loaded into the prompt inputs of the call
    iterations,             \* AgentExecutor iteration counter of the call
    intermediate_steps,     \* scratchpad of the call: (action, observation) pairs
    last_output,            \* raw model output of the latest reasoning call
    outcome,                \* how the latest call ended
    appends,                \* memory saves made by the latest call
    tool_runs,              \* registered-tool invocations made by the latest call
    tool_llm_result,        \* outcome of llm.invoke inside the latest tool invocation
    printed,                \* what reached standard output since the query was read
    full_response_content,  \* main.py's accumulator of "output" chunks
    model_calls             \* language-model calls made in the session

vars == << pc, gemini_file_object, deletion, pdf_prompts, chat_memory, user_query,
           chat_history, iterations, intermediate_steps, last_output, outcome,
           appends, tool_runs, tool_llm_result, printed, full_response_content,
           model_calls >>

-----------------------------------------------------------------------------
(* Bounds and program constants *)

\* cap on the language-model calls of one session (reasoning calls and tool calls)
MaxModelCalls == 6

\* cap on the number of rejected file names at the PDF prompt
MaxPdfPrompts == 2

\* ConversationBufferWindowMemory(k=5)
K == 5

\* AgentExecutor(max_iterations=5)
N == 5

-----------------------------------------------------------------------------
(* Text helpers: str.lower(), str.strip(), str.endswith() *)

LowerChar(c) ==
    CASE c = "E" -> "e"
      [] c = "X" -> "x"
      [] c = "I" -> "i"
      [] c = "T" -> "t"
      [] c = "Q" -> "q"
      [] c = "U" -> "u"
      [] c = "P" -> "p"
      [] c = "D" -> "d"
      [] c = "F" -> "f"
      [] OTHER -> c

Lower(s) == [i \in DOMAIN s |-> LowerChar(s[i])]

IsSpace(c) == c \in {" ", "\n", "\t"}

SetMin(S) == CHOOSE x \in S : \A y \in S : x <= y
SetMax(S) == CHOOSE x \in S : \A y \in S : x >= y

Strip(s) ==
    LET keep == {i \in DOMAIN s : ~IsSpace(s[i])}
    IN  IF keep = {} THEN << >> ELSE SubSeq(s, SetMin(keep), SetMax(keep))

EndsWith(s, suffix) ==
    /\ Len(s) >= Len(suffix)
    /\ SubSeq(s, Len(s) - Len(suffix) + 1, Len(s)) = suffix

DotPdf == << ".", "p", "d", "f" >>
Exit == << "e", "x", "i", "t" >>
Quit == << "q", "u", "i", "t" >>


-----------------------------------------------------------------------------
(* src/tools.py: the three tools.  r is the outcome of llm.invoke(messages) *)

\* outcomes of llm.invoke inside a tool: a response, or an exception
ToolLlmResults ==
    { [ok |-> TRUE,  content |-> << "r" >>, err |-> ""],
      [ok |-> FALSE, content |-> << >>,     err |-> "e"] }

\* the line each tool prints before it builds its prompt
ToolLine(query) == [src |-> "tool", kind |-> "action_input", text |-> query]

generate_summary_tool(query, r) ==
    [ raised |-> FALSE,
      value  |-> IF r.ok THEN r.content
                 ELSE << "Error in Generate Summary Tool: ", r.err >>,
      line   |-> ToolLine(query) ]

detect_revenue_trends_tool(query, r) ==
    [ raised |-> FALSE,
      value  |-> IF r.ok THEN r.content
                 ELSE << "Error in Detect Revenue Trends Tool: ", r.err >>,
      line   |-> ToolLine(query) ]

\* a tool without the try/except around llm.invoke
highlight_key_financial_metrics_tool_unguarded(query, r) ==
    [ raised |-> ~r.ok,
      value  |-> r.content,
      line   |-> ToolLine(query) ]

highlight_key_financial_metrics_tool(query, r) ==
    [ raised |-> FALSE,
      value  |-> IF r.ok THEN r.content
                 ELSE << "Error in Highlight Key Financial Metrics Tool: ", r.err >>,
      line   |-> ToolLine(query) ]

-----------------------------------------------------------------------------
(* src/agent.py: registry, output parsing, memory window, executor settings *)

\* names of the Tool objects, in registration order
tools == << "FinancialSummary", "RevenueTrendAnalysis", "KeyFinancialMetricsExtraction" >>

ToolNames == { tools[i] : i \in DOMAIN tools }

\* Tool.func of a registered name
RunTool(name, query, r) ==
    CASE name = "FinancialSummary"              -> generate_summary_tool(query, r)
      [] name = "RevenueTrendAnalysis"          -> detect_revenue_trends_tool(query, r)
      [] name = "KeyFinancialMetricsExtraction" -> highlight_key_financial_metrics_tool(query, r)

\* the error tag of each tool
ErrorTag(name) ==
    CASE name = "FinancialSummary"              -> "Error in Generate Summary Tool: "
      [] name = "RevenueTrendAnalysis"          -> "Error in Detect Revenue Trends Tool: "
      [] name = "KeyFinancialMetricsExtraction" -> "Error in Highlight Key Financial Metrics Tool: "

handle_parsing_errors ==
    << "Check your output and make sure it conforms to the expected ReAct format. Ensure the Action is one of the available tools names." >>

\* observation the executor produces for an action naming no registered tool
InvalidToolObservation(name) ==
    << name, " is not a valid tool, try one of [FinancialSummary, RevenueTrendAnalysis, KeyFinancialMetricsExtraction]." >>

\* output of the executor when the iteration limit ends the loop
StoppedOutput == << "Agent stopped due to iteration limit or time limit." >>

\* absent parts of a model output
NoAction == ""
None == << "<none>" >>

\* action names the model may write that are not registered (wrong case included)
UnregisteredNames == { "NoSuchTool", "financialsummary" }

\* texts the model may write after "Action Input:" and after "Final Answer:"
RawInputs == { << " ", "x" >> }
FinalTails == { << " ", "a" >>, << "a", " ", "b", " " >> }

Out(a, i, f) == [action |-> a, input |-> i, final |-> f]

\* model outputs following REACT_PROMPT_TEMPLATE, and malformed ones
LLMOutputs ==
    { Out(NoAction, None, f) : f \in FinalTails }
      \cup { Out(a, i, None) : a \in ToolNames \cup UnregisteredNames, i \in RawInputs }
      \cup { Out("FinancialSummary", None, None), Out(NoAction, None, None) }
      \cup { Out("FinancialSummary", i, f) : i \in RawInputs, f \in FinalTails }

\* the final-answer shape of the template: a Final Answer line and no action
IsFinalShape(o) == o.final # None /\ o.action = NoAction /\ o.input = None

\* the action shape of the template: an Action line and an Action Input line
IsActionShape(o) == o.action # NoAction /\ o.input # None /\ o.final = None

\* a parser that takes an action line first and so misses a final answer
Parse_action_first(o) ==
    IF o.action # NoAction /\ o.input # None
    THEN [type |-> "action", tool |-> o.action, tool_input |-> Strip(o.input), output |-> << >>]
    ELSE IF o.final # None
         THEN [type |-> "finish", tool |-> "", tool_input |-> << >>, output |-> o.final]
         ELSE [type |-> "error", tool |-> "_Exception", tool_input |-> << >>, output |-> << >>]

\* the ReAct output parser behind create_react_agent
Parse(o) ==
    IF o.action # NoAction /\ o.input # None
    THEN IF o.final # None
         THEN [type |-> "error", tool |-> "_Exception", tool_input |-> << >>, output |-> << >>]
         ELSE [type |-> "action", tool |-> o.action, tool_input |-> Strip(o.input), output |-> << >>]
    ELSE IF o.final # None
         THEN [type |-> "finish", tool |-> "", tool_input |-> << >>, output |-> Strip(o.final)]
         ELSE [type |-> "error", tool |-> "_Exception", tool_input |-> << >>, output |-> << >>]

\* a window that is one exchange too long
buffer_one_too_many(messages) ==
    IF Len(messages) <= K + 1 THEN messages
    ELSE SubSeq(messages, Len(messages) - K, Len(messages))

\* the memory's window: the last k exchanges of what it stores
buffer(messages) ==
    IF Len(messages) <= K THEN messages
    ELSE SubSeq(messages, Len(messages) - K + 1, Len(messages))

\* memory.save_context: one exchange (input, output) per finished call
save_context(messages, input, output) ==
    Append(messages, [n |-> Len(messages) + 1, input |-> input, output |-> output])

\* an iteration test that lets one more iteration start
should_continue_inclusive(i) == i <= N

\* AgentExecutor._should_continue
should_continue(i) == i < N

-----------------------------------------------------------------------------
(* src/main.py: start-up *)

\* what the user may type at the PDF prompt, and the files that exist in DATA_DIR
PdfInputs == { Quit, << "Q", "u", "i", "t" >>, << "r" >>,
               << "r", ".", "P", "D", "F" >>, << "m" >> }
ExistingFiles == { << "r", ".", "p", "d", "f" >>, << "r", ".", "P", "D", "F" >> }

\* what the user may type at the "You: " prompt
UserInputs == { Exit, Quit, << "E", "x", "i", "t" >>, << "Q", "U", "I", "T" >>,
                << >>, << " " >>, << "s" >> }

NoOutput == Out("<no output>", None, None)
NoResult == [ok |-> FALSE, content |-> << >>, err |-> "<no call>"]

Init ==
    /\ pc = "start"
    /\ gemini_file_object = FALSE
    /\ deletion = "not_attempted"
    /\ pdf_prompts = 0
    /\ chat_memory = << >>
    /\ user_query = << >>
    /\ chat_history = << >>
    /\ iterations = 0
    /\ intermediate_steps = << >>
    /\ last_output = NoOutput
    /\ outcome = "none"
    /\ appends = 0
    /\ tool_runs = 0
    /\ tool_llm_result = NoResult
    /\ printed = << >>
    /\ full_response_content = << >>
    /\ model_calls = 0

session == << gemini_file_object, deletion, pdf_prompts >>
call == << chat_memory, chat_history, iterations, intermediate_steps, last_output,
           outcome, appends, tool_runs, tool_llm_result, full_response_content,
           model_calls >>

\* initialize_llm returns None (no key, SDK or LangChain error) or the llm
initialize_llm ==
    /\ pc = "start"
    /\ \E ok \in BOOLEAN : pc' = IF ok THEN "pdf" ELSE "exited"
    /\ UNCHANGED << session, call, user_query, printed >>

\* get_pdf_path_from_user, before its loop: DATA_DIR must be a directory
get_pdf_path_from_user ==
    /\ pc = "pdf"
    /\ \E dir_ok \in BOOLEAN : pc' = IF dir_ok THEN "pdf_prompt" ELSE "exited"
    /\ UNCHANGED << session, call, user_query, printed >>

\* the path get_pdf_path_from_user builds from the typed name
PdfPath(name) == IF EndsWith(Lower(name), DotPdf) THEN name ELSE name \o DotPdf

\* one pass of the loop of get_pdf_path_from_user
pdf_prompt ==
    /\ pc = "pdf_prompt"
    /\ \E name \in PdfInputs :
          IF Lower(name) = Quit
          THEN pc' = "exited" /\ pdf_prompts' = pdf_prompts
          ELSE IF PdfPath(name) \in ExistingFiles
               THEN pc' = "upload" /\ pdf_prompts' = 0
               ELSE /\ pdf_prompts < MaxPdfPrompts
                    /\ pc' = "pdf_prompt"
                    /\ pdf_prompts' = pdf_prompts + 1
    /\ UNCHANGED << gemini_file_object, deletion, call, user_query, printed >>

\* a start-up that goes on to create the agent whatever the upload returned
upload_pdf_to_gemini_unchecked ==
    /\ pc = "upload"
    /\ \E ok \in BOOLEAN :
          /\ gemini_file_object' = ok
          /\ pc' = "create"
    /\ UNCHANGED << deletion, pdf_prompts, call, user_query, printed >>

\* upload_pdf_to_gemini returns the File, or None when the upload raises
upload_pdf_to_gemini ==
    /\ pc = "upload"
    /\ \E ok \in BOOLEAN :
          /\ gemini_file_object' = ok
          /\ pc' = IF ok THEN "create" ELSE "exited"
    /\ UNCHANGED << deletion, pdf_prompts, call, user_query, printed >>

\* create_financial_agent builds tools, memory and executor and returns the executor
create_financial_agent ==
    /\ pc = "create"
    /\ pc' = "awaiting"
    /\ chat_memory' = << >>
    /\ UNCHANGED << session, chat_history, iterations, intermediate_steps, last_output,
                    outcome, appends, tool_runs, tool_llm_result, full_response_content,
                    model_calls, user_query, printed >>

\* input() raises EOFError when standard input ends; nothing catches it
input_eof ==
    /\ pc \in {"pdf_prompt", "awaiting"}
    /\ pc' = "crashed"
    /\ UNCHANGED << session, call, user_query, printed >>

-----------------------------------------------------------------------------
(* src/main.py: the conversational loop *)

IsExitCommand(text) == Lower(text) \in {Exit, Quit}

\* a test for the empty input that forgets strip()
IsBlank_without_strip(text) == text = << >>

IsBlank(text) == Strip(text) = << >>

\* the clean-up of the exit branch: delete attempted when there is an upload
CleanUp(file, del_ok) ==
    IF file THEN (IF del_ok THEN "deleted" ELSE "failed_logged") ELSE "not_attempted"

\* 'exit' or 'quit': clean up, leave the loop, print "Session Ended."
read_exit ==
    /\ pc = "awaiting"
    /\ \E text \in UserInputs, del_ok \in BOOLEAN :
          /\ IsExitCommand(text)
          /\ user_query' = text
          /\ deletion' = CleanUp(gemini_file_object, del_ok)
    /\ pc' = "ended"
    /\ printed' = << >>
    /\ UNCHANGED << gemini_file_object, pdf_prompts, call >>

\* an input that is empty after strip(): continue
read_blank ==
    /\ pc = "awaiting"
    /\ \E text \in UserInputs :
          /\ ~IsExitCommand(text)
          /\ IsBlank(text)
          /\ user_query' = text
    /\ pc' = "awaiting"
    /\ printed' = << >>
    /\ UNCHANGED << session, call >>

\* any other input: financial_agent_executor.stream({"input": user_query}) starts
read_query ==
    /\ pc = "awaiting"
    /\ model_calls < MaxModelCalls
    /\ \E text \in UserInputs :
          /\ ~IsExitCommand(text)
          /\ ~IsBlank(text)
          /\ user_query' = text
    /\ pc' = "running"
    /\ chat_history' = buffer(chat_memory)
    /\ iterations' = 0
    /\ intermediate_steps' = << >>
    /\ last_output' = NoOutput
    /\ outcome' = "none"
    /\ appends' = 0
    /\ tool_runs' = 0
    /\ tool_llm_result' = NoResult
    /\ full_response_content' = << >>
    /\ printed' = << [src |-> "main", kind |-> "prefix", text |-> << "Agent: " >>] >>
    /\ UNCHANGED << session, chat_memory, model_calls >>

-----------------------------------------------------------------------------
(* The executor's stream as consumed by the loop of main.py *)

\* AgentExecutor(verbose=True): the executor logs each action and observation
verbose == TRUE

VerboseLine(kind, text) ==
    IF verbose THEN << [src |-> "executor", kind |-> kind, text |-> text] >> ELSE << >>

\* the chunks of the stream: an action, a step (action and observation), the output
ActionChunk(step) == [actions |-> << step.tool >>, messages |-> << step.tool_input >>]
StepChunk(step) == [steps |-> << step >>, messages |-> << step.observation >>]
OutputChunk(text) == [output |-> text, messages |-> << text >>]

\* a loop that prints the text of every chunk of the stream
stream_print_every_chunk(chunk) ==
    << [src |-> "main", kind |-> "output", text |-> chunk.messages[1]] >>

\* main.py: print(chunk["output"]) only if "output" in chunk
stream_print(chunk) ==
    IF "output" \in DOMAIN chunk
    THEN << [src |-> "main", kind |-> "output", text |-> chunk.output] >>
    ELSE << >>

\* main.py: full_response_content += chunk["output"] only if "output" in chunk
stream_accumulate(chunk) == IF "output" \in DOMAIN chunk THEN chunk.output ELSE << >>

\* main.py: the except branch reports and the while loop continues
ErrorLine == [src |-> "main", kind |-> "error", text |-> << "[Unexpected Error]" >>]

\* a loop without the try/except around the stream: the exception ends the session
Raise_uncaught(lines) ==
    /\ pc' = "crashed"
    /\ outcome' = "error"
    /\ printed' = printed \o lines
    /\ UNCHANGED << session, chat_memory, chat_history, iterations, intermediate_steps,
                    appends, full_response_content, user_query >>

\* an exception leaves stream(): nothing is saved, main.py reports it
Raise(lines) ==
    /\ pc' = "awaiting"
    /\ outcome' = "error"
    /\ printed' = Append(printed \o lines, ErrorLine)
    /\ UNCHANGED << session, chat_memory, chat_history, iterations, intermediate_steps,
                    appends, full_response_content, user_query >>

\* the executor returns: save the exchange, yield the output chunk, main.py prints it
Return(output, how) ==
    /\ pc' = "awaiting"
    /\ outcome' = how
    /\ chat_memory' = save_context(chat_memory, user_query, output)
    /\ appends' = appends + 1
    /\ printed' = printed \o stream_print(OutputChunk(output))
    /\ full_response_content' = full_response_content \o stream_accumulate(OutputChunk(output))
    /\ UNCHANGED << session, chat_history, iterations, intermediate_steps, tool_runs,
                    user_query >>

\* a memory that is also written after every intermediate step
Observe_saving(step, lines) ==
    /\ pc' = "running"
    /\ intermediate_steps' = Append(intermediate_steps, step)
    /\ iterations' = iterations + 1
    /\ chat_memory' = save_context(chat_memory, step.tool_input, step.observation)
    /\ appends' = appends + 1
    /\ printed' = printed \o VerboseLine("log", step.tool_input)
                          \o stream_print(ActionChunk(step))
                          \o lines
                          \o VerboseLine("observation", step.observation)
                          \o stream_print(StepChunk(step))
    /\ UNCHANGED << session, chat_history, outcome, full_response_content, user_query >>

\* one more (action, observation) pair on the scratchpad; the iteration is used up
Observe(step, lines) ==
    /\ pc' = "running"
    /\ intermediate_steps' = Append(intermediate_steps, step)
    /\ iterations' = iterations + 1
    /\ printed' = printed \o VerboseLine("log", step.tool_input)
                          \o stream_print(ActionChunk(step))
                          \o lines
                          \o VerboseLine("observation", step.observation)
                          \o stream_print(StepChunk(step))
    /\ UNCHANGED << session, chat_memory, chat_history, outcome, appends,
                    full_response_content, user_query >>

Iterating == pc = "running" /\ should_continue(iterations)

\* the reasoning call of an iteration raises (network, API, rate limit)
agent_llm_error ==
    /\ Iterating
    /\ model_calls < MaxModelCalls
    /\ model_calls' = model_calls + 1
    /\ last_output' = NoOutput
    /\ Raise(<< >>)
    /\ UNCHANGED << tool_runs, tool_llm_result >>

\* the output parses as AgentFinish
agent_finish ==
    /\ Iterating
    /\ model_calls < MaxModelCalls
    /\ \E o \in LLMOutputs :
          /\ Parse(o).type = "finish"
          /\ last_output' = o
          /\ Return(Parse(o).output, "final")
    /\ model_calls' = model_calls + 1
    /\ UNCHANGED tool_llm_result

\* the output parses as an action on a registered tool: the tool runs
agent_tool ==
    /\ Iterating
    /\ model_calls + 2 <= MaxModelCalls
    /\ \E o \in LLMOutputs, r \in ToolLlmResults :
          LET p == Parse(o)
              res == RunTool(p.tool, p.tool_input, r)
          IN  /\ p.type = "action"
              /\ p.tool \in ToolNames
              /\ last_output' = o
              /\ tool_runs' = tool_runs + 1
              /\ tool_llm_result' = r
              /\ IF res.raised
                 THEN Raise(VerboseLine("log", p.tool_input) \o << res.line >>)
                 ELSE Observe([tool |-> p.tool, tool_input |-> p.tool_input,
                               observation |-> res.value], << res.line >>)
    /\ model_calls' = model_calls + 2


\* an executor that looks the named tool up without checking the name
agent_invalid_tool_raises ==
    /\ Iterating
    /\ model_calls < MaxModelCalls
    /\ \E o \in LLMOutputs :
          LET p == Parse(o)
          IN  /\ p.type = "action"
              /\ p.tool \notin ToolNames
              /\ last_output' = o
              /\ Raise(<< >>)
    /\ model_calls' = model_calls + 1
    /\ UNCHANGED << tool_runs, tool_llm_result >>

\* the output parses as an action on a name that is not registered: no tool runs,
\* the observation names the valid tools
agent_invalid_tool ==
    /\ Iterating
    /\ model_calls < MaxModelCalls
    /\ \E o \in LLMOutputs :
          LET p == Parse(o)
          IN  /\ p.type = "action"
              /\ p.tool \notin ToolNames
              /\ last_output' = o
              /\ Observe([tool |-> p.tool, tool_input |-> p.tool_input,
                          observation |-> InvalidToolObservation(p.tool)], << >>)
    /\ model_calls' = model_calls + 1
    /\ UNCHANGED << tool_runs, tool_llm_result >>

\* the output does not parse: handle_parsing_errors becomes the observation
agent_parse_error ==
    /\ Iterating
    /\ model_calls < MaxModelCalls
    /\ \E o \in LLMOutputs :
          LET p == Parse(o)
          IN  /\ p.type = "error"
              /\ last_output' = o
              /\ Observe([tool |-> p.tool, tool_input |-> handle_parsing_errors,
                          observation |-> handle_parsing_errors], << >>)
    /\ model_calls' = model_calls + 1
    /\ UNCHANGED << tool_runs, tool_llm_result >>

\* max_iterations reached without a final answer: the executor stops with its
\* fixed output, which is returned like an answer
agent_stop ==
    /\ pc = "running"
    /\ ~should_continue(iterations)
    /\ Return(StoppedOutput, "stopped")
    /\ UNCHANGED << last_output, model_calls, tool_llm_result >>

Next ==
    \/ initialize_llm
    \/ get_pdf_path_from_user
    \/ pdf_prompt
    \/ upload_pdf_to_gemini
    \/ create_financial_agent
    \/ input_eof
    \/ read_exit
    \/ read_blank
    \/ read_query
    \/ agent_llm_error
    \/ agent_finish
    \/ agent_tool
    \/ agent_invalid_tool
    \/ agent_parse_error
    \/ agent_stop

Spec == Init /\ [][Next]_vars

-----------------------------------------------------------------------------
(* Properties *)

Last(sq) == sq[Len(sq)]

\* the exchanges the memory hands to the prompt
ConversationMemory == buffer(chat_memory)

C2_LimitState ==
    /\ iterations <= N
    /\ Len(intermediate_steps) = iterations
    /\ outcome = "stopped" =>
          /\ iterations = N
          /\ pc # "running"
          /\ appends = 1
          /\ full_response_content = StoppedOutput
          /\ Last(chat_memory).output = StoppedOutput

C2_LimitStep ==
    (pc = "running" /\ iterations = N) =>
        /\ pc' = "awaiting"
        /\ outcome' = "stopped"
        /\ iterations' = N
        /\ model_calls' = model_calls
        /\ Last(printed').src = "main" /\ Last(printed').kind = "output"
        /\ Last(printed').text = StoppedOutput
        /\ \A i \in 1 .. Len(printed') : printed'[i] # ErrorLine

C2_IterationLimit == [](C2_LimitState) /\ [][C2_LimitStep]_vars

C2_Witness ==
    /\ outcome = "stopped"
    /\ pc = "awaiting"
    /\ iterations = N
    /\ model_calls = N

\* C3: a model output of the final-answer shape ends the call in the iteration
\* that produced it: no tool runs in it, nothing is added to the scratchpad, and
\* the answer returned is the text after "Final Answer:", trimmed.
C3_FinalStep ==
    (pc = "running" /\ model_calls' > model_calls /\ IsFinalShape(last_output')) =>
        /\ pc' = "awaiting"
        /\ outcome' = "final"
        /\ iterations' = iterations
        /\ intermediate_steps' = intermediate_steps
        /\ tool_runs' = tool_runs
        /\ model_calls' = model_calls + 1
        /\ full_response_content' = Strip(last_output'.final)
        /\ Last(chat_memory').output = Strip(last_output'.final)

C3_FinalAnswer == [][C3_FinalStep]_vars

C3_Witness ==
    /\ pc = "awaiting"
    /\ outcome = "final"
    /\ IsFinalShape(last_output)
    /\ iterations = 2
    /\ full_response_content = << "a", " ", "b" >>
    /\ last_output.final = << "a", " ", "b", " " >>


\* C4 as stated: an action naming an unregistered tool is recovered as a parse
\* error, with the corrective text of handle_parsing_errors as its observation.
C4_AsStated ==
    \A i \in 1 .. Len(intermediate_steps) :
        intermediate_steps[i].tool \notin ToolNames =>
            intermediate_steps[i].observation = handle_parsing_errors

\* C4 amended: an action naming an unregistered tool (exact, case-sensitive
\* match) does not end the call, runs no tool and uses up exactly one iteration
\* and one model call; its observation is the executor's invalid-tool message
\* naming the registered tools, not the parse-error text.  An unregistered-tool
\* output followed by a final-answer output gives that answer in iteration 2.
C4_InvalidStep ==
    (pc = "running" /\ model_calls' > model_calls /\ IsActionShape(last_output')
       /\ last_output'.action \notin ToolNames) =>
        /\ pc' = "running"
        /\ outcome' = outcome
        /\ tool_runs' = tool_runs
        /\ iterations' = iterations + 1
        /\ model_calls' = model_calls + 1
        /\ intermediate_steps' = Append(intermediate_steps, Last(intermediate_steps'))
        /\ Last(intermediate_steps').tool = last_output'.action
        /\ Last(intermediate_steps').observation = InvalidToolObservation(last_output'.action)
        /\ Last(intermediate_steps').observation # handle_parsing_errors
        /\ chat_memory' = chat_memory

C4_Scenario ==
    (outcome = "final" /\ Len(intermediate_steps) = 1
       /\ intermediate_steps[1].tool \in UnregisteredNames) =>
        /\ iterations = 1
        /\ tool_runs = 0
        /\ full_response_content = Strip(last_output.final)

C4_UnregisteredTool == [](C4_Scenario) /\ [][C4_InvalidStep]_vars

C4_Witness ==
    /\ pc = "awaiting"
    /\ outcome = "final"
    /\ Len(intermediate_steps) = 1
    /\ intermediate_steps[1].tool = "financialsummary"
    /\ iterations = 1
    /\ tool_runs = 0

\* C5 as stated: every call of the executor appends to the memory exactly once.
C5_AsStated == (pc = "awaiting" /\ outcome # "none") => appends = 1

\* C5 amended: a call that ends with an outcome (a final answer or the
\* iteration limit) appends to the memory exactly once, at its end, the pair of
\* the user query and that outcome's text, whatever its iterations and tool
\* invocations; a call that ends with an exception appends nothing; nothing of
\* the scratchpad is ever written to the memory.
C5_CallState ==
    /\ pc = "running" => appends = 0
    /\ outcome \in {"final", "stopped"} =>
          /\ appends = 1
          /\ Last(chat_memory).output = full_response_content
    /\ outcome = "error" => appends = 0
    /\ \A i \in 1 .. Len(chat_memory) :
          /\ chat_memory[i].output \in { Strip(f) : f \in FinalTails } \cup { StoppedOutput }
          /\ chat_memory[i].input \in UserInputs
          /\ \A j \in 1 .. Len(intermediate_steps) :
                /\ chat_memory[i].output # intermediate_steps[j].observation
                /\ chat_memory[i].input # intermediate_steps[j].tool_input

C5_MemoryStep ==
    chat_memory' # chat_memory =>
        /\ pc = "running" /\ pc' = "awaiting"
        /\ outcome' \in {"final", "stopped"}
        /\ appends = 0 /\ appends' = 1
        /\ chat_memory' = Append(chat_memory, [n |-> Len(chat_memory) + 1,
                                               input |-> user_query,
                                               output |-> full_response_content'])

C5_OneAppendPerCall == [](C5_CallState) /\ [][C5_MemoryStep]_vars

C5_Witness ==
    /\ pc = "awaiting"
    /\ outcome = "final"
    /\ iterations = 3
    /\ tool_runs = 1
    /\ appends = 1
    /\ Len(chat_memory) = 1

C5_FailedCallWitness == pc = "awaiting" /\ outcome = "error" /\ iterations >= 1

\* C6: whatever the tool and the query, a failure of the language-model call
\* inside the tool does not leave the tool as an exception: the tool returns its
\* error tag followed by the failure's text, the executor records that as the
\* observation of the step and goes on; when the call succeeds the observation
\* is the generated text itself.
C6_ToolStep ==
    (tool_runs' = tool_runs + 1) =>
        /\ pc' = "running"
        /\ outcome' = outcome
        /\ iterations' = iterations + 1
        /\ Len(intermediate_steps') = Len(intermediate_steps) + 1
        /\ LET st == Last(intermediate_steps')
               r == tool_llm_result'
           IN  /\ st.tool \in ToolNames
               /\ st.tool = last_output'.action
               /\ st.observation = IF r.ok THEN r.content ELSE << ErrorTag(st.tool), r.err >>

C6_ToolsNeverRaise == [][C6_ToolStep]_vars

C6_Witness ==
    /\ pc = "running"
    /\ Len(intermediate_steps) = 2
    /\ tool_llm_result.ok = FALSE
    /\ intermediate_steps[1].tool = "KeyFinancialMetricsExtraction"
    /\ intermediate_steps[1].observation =
          << "Error in Highlight Key Financial Metrics Tool: ", "e" >>
    /\ intermediate_steps[2].tool = "NoSuchTool"


\* the conversational loop has been entered and the session is over
SessionOver == pc \in {"ended", "crashed"} /\ gemini_file_object

C7_FailureStep ==
    /\ pc = "running" => pc' \in {"running", "awaiting"}
    /\ (outcome' = "error" /\ (outcome # "error" \/ model_calls' > model_calls)) =>
          /\ pc = "running" /\ pc' = "awaiting"
          /\ Last(printed') = ErrorLine
          /\ chat_memory' = chat_memory
          /\ gemini_file_object' /\ deletion' = "not_attempted"
    /\ (gemini_file_object /\ pc' \in {"ended", "crashed"} /\ pc \notin {"ended", "crashed"}) =>
          /\ pc = "awaiting"
          /\ (pc' = "ended" => IsExitCommand(user_query'))

C7_NextQueryWitness ==
    /\ pc = "running"
    /\ model_calls >= 1
    /\ chat_memory = << >>
    /\ iterations = 0

C8_DeleteOnEveryEnd ==
    /\ SessionOver => deletion # "not_attempted"
    /\ deletion = "failed_logged" => pc = "ended"

\* C8, the exit-command path alone: the session that ends with "Session Ended."
\* has attempted the deletion, whether or not the deletion succeeded.
C8_ExitPathDeletes ==
    (pc = "ended") => (gemini_file_object /\ deletion \in {"deleted", "failed_logged"})

C8_FailedDeleteWitness == pc = "ended" /\ deletion = "failed_logged"

\* C9 as stated: a missing document file ends the session without retry.
C9_AsStated == pdf_prompts > 0 => pc = "exited"

\* C9 amended: when the model cannot be initialised, DATA_DIR is missing or not
\* a directory, or the upload fails, the session ends at once without retry, and
\* in a session that ended during start-up no query was read and no reasoning
\* step or tool ran.  A file name that does not exist in DATA_DIR is not fatal:
\* the user is asked again until a file exists or 'quit' is typed.
C9_StartupState ==
    /\ pc \in {"start", "pdf", "pdf_prompt", "upload", "create", "exited"} =>
          /\ model_calls = 0
          /\ user_query = << >>
          /\ chat_memory = << >>
          /\ iterations = 0 /\ intermediate_steps = << >>
          /\ tool_runs = 0 /\ outcome = "none" /\ printed = << >>
    /\ pc \in {"create", "awaiting", "running", "ended"} => gemini_file_object
    /\ pc = "exited" => deletion = "not_attempted"

C9_StartupStep ==
    /\ pc = "exited" => pc' = "exited"
    /\ pc = "start" => pc' \in {"pdf", "exited"}
    /\ pc = "pdf" => pc' \in {"pdf_prompt", "exited"}
    /\ pc = "upload" => pc' = IF gemini_file_object' THEN "create" ELSE "exited"
    /\ pdf_prompts' > pdf_prompts => (pc = "pdf_prompt" /\ pc' = "pdf_prompt")

C9_StartupFailureFatal == [](C9_StartupState) /\ [][C9_StartupStep]_vars

C9_Witness == pc = "exited" /\ ~gemini_file_object /\ pdf_prompts >= 1 /\ model_calls = 0

C9_RetryWitness == pc = "pdf_prompt" /\ pdf_prompts >= 1

\* the entries of a sequence of printed lines that satisfy a test
Lines(test(_)) == SelectSeq(printed, test)

IsIntermediate(l) == l.kind \in {"log", "observation", "action_input"}
IsMainOutput(l) == l.src = "main" /\ l.kind = "output"
IsToolLine(l) == l.src = "tool"

\* C10 as stated: no thought, action, action input or observation text of a
\* reasoning iteration reaches the user's standard output.
C10_AsStated == Lines(IsIntermediate) = << >>

\* C10 amended: from the stream, the session loop prints the final answer only:
\* the one chunk that carries "output", whose text is the complete answer, and
\* nothing for the action and step chunks of the iterations.  The same standard
\* output also receives, for every tool invocation, the tool's own line with the
\* action input, and the log lines of the verbose executor.
C10_FinalAnswerOnly ==
    printed # << >> =>
        /\ printed[1].kind = "prefix"
        /\ \A i \in 1 .. Len(printed) :
              /\ printed[i].src = "main" => printed[i].kind \in {"prefix", "output", "error"}
              /\ IsIntermediate(printed[i]) => printed[i].src \in {"tool", "executor"}
        /\ Len(Lines(IsToolLine)) = tool_runs
        /\ \A i \in 1 .. Len(printed) :
              IsToolLine(printed[i]) =>
                 \E j \in 1 .. Len(intermediate_steps) :
                     /\ intermediate_steps[j].tool \in ToolNames
                     /\ intermediate_steps[j].tool_input = printed[i].text
        /\ Lines(IsMainOutput) =
              IF pc # "running" /\ outcome \in {"final", "stopped"}
              THEN << [src |-> "main", kind |-> "output", text |-> Last(chat_memory).output] >>
              ELSE << >>
        /\ (pc # "running" /\ outcome \in {"final", "stopped"}) =>
              /\ IsMainOutput(Last(printed))
              /\ full_response_content = Last(chat_memory).output
        /\ outcome \in {"none", "error"} => full_response_content = << >>

C10_Witness ==
    /\ pc = "awaiting"
    /\ outcome = "final"
    /\ tool_runs = 1
    /\ Len(intermediate_steps) = 2
    /\ Len(Lines(IsMainOutput)) = 1
    /\ Len(Lines(IsIntermediate)) = 5


\* an input made of whitespace only, and an input spelling a word in any case
OnlyWhitespace(text) == \A i \in 1 .. Len(text) : text[i] \in {" ", "\n", "\t"}

Spells(text, lower, upper) ==
    /\ Len(text) = Len(lower)
    /\ \A i \in 1 .. Len(text) : text[i] \in {lower[i], upper[i]}

SpellsExitOrQuit(text) ==
    \/ Spells(text, Exit, << "E", "X", "I", "T" >>)
    \/ Spells(text, Quit, << "Q", "U", "I", "T" >>)

\* what a call of the executor would change
ExecutorState ==
    << chat_memory, chat_history, iterations, intermediate_steps, last_output, outcome,
       appends, tool_runs, tool_llm_result, full_response_content, model_calls >>

\* C11: in the session loop an input that is empty or only whitespace never
\* invokes the executor: no reasoning iteration starts, no tool runs, the memory
\* is unchanged and the session still accepts the next input; an input equal to
\* 'exit' or 'quit' in any letter case ends the session, likewise without
\* invoking the executor.  Any other input starts a call.
C11_InputStep ==
    (pc = "awaiting" /\ pc' # "crashed") =>
        /\ OnlyWhitespace(user_query') =>
              /\ pc' = "awaiting"
              /\ ExecutorState' = ExecutorState
              /\ deletion' = deletion
              /\ printed' = << >>
        /\ SpellsExitOrQuit(user_query') =>
              /\ pc' = "ended"
              /\ ExecutorState' = ExecutorState
        /\ (~OnlyWhitespace(user_query') /\ ~SpellsExitOrQuit(user_query')) =>
              /\ pc' = "running"
              /\ iterations' = 0 /\ intermediate_steps' = << >>
              /\ model_calls' = model_calls /\ chat_memory' = chat_memory

C11_BlankAndExitInputs == [][C11_InputStep]_vars

C11_Witness ==
    /\ pc = "awaiting"
    /\ user_query = << " " >>
    /\ printed = << >>
    /\ outcome = "final"
    /\ Len(chat_memory) = 1
    /\ model_calls = 1

C11_ExitWitness ==
    /\ pc = "ended"
    /\ user_query = << "Q", "U", "I", "T" >>
    /\ model_calls = 0

=============================================================================
